---- MODULE Spec2Model ----
(***************************************************************************)
(* ScraprIQ backend: the lead scraper (app/scrapers.py) and the batch      *)
(* endpoint (main.py).                                                     *)
(*                                                                         *)
(* Text is modelled as a sequence of one-character strings, so that the    *)
(* regular expressions and str methods of the source are computed          *)
(* character by character.  None is the empty sequence.                    *)
(***************************************************************************)
EXTENDS Integers, Sequences, FiniteSets, TLC

VARIABLES
    \* ---- email candidate generator, run on its own (SpecGen)
    g_pc, g_name, g_domain, g_email,
    \* ---- scrape_company_team_page (Spec)
    pc,                 \* position in scrape_company_team_page
    netloc,             \* parsed_url.netloc of the url argument
    domain,             \* local `domain`
    hunter_client,      \* TRUE iff the module-level client is not None
    employees_data,     \* local list `employees_data`
    unique_employees,   \* the returned list
    nseen,              \* number of containers the for-loop has taken so far
    cards,              \* history: the containers the for-loop has taken, in order
    produced,           \* history: what _extract_info_from_card returned for each
    lastVerify,         \* the last verify_email_with_hunter call
    raisedAt,           \* index of the container whose processing raised, or 0
    beforeRaise,        \* employees_data at the moment a container raised
    \* ---- batch_scrape_and_store_leads (SpecBatch)
    b_pc, b_urls, b_idx, b_scraped, b_k, all_stored_leads, db, response, b_log,
    \* ---- the container locator of scrape_company_team_page (SpecLocate)
    l_pc,               \* position: "parsed", "located", "done"
    l_doc,              \* the parsed document: its elements in document order
    l_primary,          \* history: what the first find_all returned
    l_fallback,         \* history: TRUE iff the fallback branch was taken
    l_containers,       \* potential_person_containers
    l_result,           \* the returned list
    l_error             \* history: TRUE iff an except handler ran

vars == <<g_pc, g_name, g_domain, g_email,
          pc, netloc, domain, hunter_client, employees_data, unique_employees,
          nseen, cards, produced, lastVerify, raisedAt, beforeRaise,
          b_pc, b_urls, b_idx, b_scraped, b_k, all_stored_leads, db, response, b_log,
          l_pc, l_doc, l_primary, l_fallback, l_containers, l_result, l_error>>

genVars   == <<g_pc, g_name, g_domain, g_email>>
pageVars  == <<pc, netloc, domain, hunter_client, employees_data, unique_employees,
               nseen, cards, produced, lastVerify, raisedAt, beforeRaise>>
batchVars == <<b_pc, b_urls, b_idx, b_scraped, b_k, all_stored_leads, db, response, b_log>>
locVars   == <<l_pc, l_doc, l_primary, l_fallback, l_containers, l_result, l_error>>

----------------------------------------------------------------------------
(* Bounds *)

MaxNameLen == 3
MaxDomainLen == 4
MaxContainers == 2
MaxUrls == 2
MaxEmailLen == 6
MaxDocLen == 2

----------------------------------------------------------------------------
(* Characters and the str methods the source uses *)

UpperSeq == <<"A","B","C","D","E","F","G","H","I","J","K","L","M","N","O","P","Q","R","S","T","U","V","W","X","Y","Z">>
LowerSeq == <<"a","b","c","d","e","f","g","h","i","j","k","l","m","n","o","p","q","r","s","t","u","v","w","x","y","z">>
DigitChars == {"0","1","2","3","4","5","6","7","8","9"}
Whitespace == {" "}

IsUpper(c) == \E i \in 1..Len(UpperSeq) : UpperSeq[i] = c
IsLower(c) == \E i \in 1..Len(LowerSeq) : LowerSeq[i] = c
IsDigit(c) == c \in DigitChars
\* \w of the re module, over the ASCII characters of the model
IsWord(c) == IsUpper(c) \/ IsLower(c) \/ IsDigit(c) \/ c = "_"
IsSpace(c) == c \in Whitespace

\* str.lower() on one character
LowerChar(c) ==
    IF IsUpper(c) THEN LowerSeq[CHOOSE i \in 1..Len(UpperSeq) : UpperSeq[i] = c] ELSE c

\* a generator that forgets .lower()
LowerNoop(s) == s

\* str.lower()
Lower(s) == [i \in 1..Len(s) |-> LowerChar(s[i])]

\* str.strip()
RECURSIVE LStrip(_)
LStrip(s) == IF s # <<>> /\ IsSpace(Head(s)) THEN LStrip(Tail(s)) ELSE s
RECURSIVE RStrip(_)
RStrip(s) == IF s # <<>> /\ IsSpace(s[Len(s)]) THEN RStrip(SubSeq(s, 1, Len(s) - 1)) ELSE s
Strip(s) == RStrip(LStrip(s))

\* counting the separators instead of the tokens
SplitLenSpaces(s) == Cardinality({i \in 1..Len(s) : IsSpace(s[i])})

\* len(s.split()): the number of maximal runs of non-whitespace characters
SplitLen(s) ==
    Cardinality({i \in 1..Len(s) : ~IsSpace(s[i]) /\ (i = 1 \/ IsSpace(s[i - 1]))})

\* any(char.isdigit() for char in s)
AnyDigit(s) == \E i \in 1..Len(s) : IsDigit(s[i])

\* s.isnumeric()
IsNumeric(s) == s # <<>> /\ \A i \in 1..Len(s) : IsDigit(s[i])

\* " " in s
HasSpace(s) == \E i \in 1..Len(s) : s[i] = " "

\* re.search(r'^\W+$', s)
OnlyNonWord(s) == s # <<>> /\ \A i \in 1..Len(s) : ~IsWord(s[i])

\* re.match(r"[^@]+@[^@]+\.[^@]+", s): a match anchored at the start of s only
ShapeMatch(s) ==
    \E a \in 2..Len(s) :
        /\ s[a] = "@"
        /\ \A i \in 1..(a - 1) : s[i] # "@"
        /\ \E k \in (a + 2)..(Len(s) - 1) :
              /\ s[k] = "."
              /\ \A i \in (a + 1)..(k - 1) : s[i] # "@"
              /\ s[k + 1] # "@"

\* the sentinel 'N/A'
NA == <<"N","/","A">>

----------------------------------------------------------------------------
(* Email candidate generator: _extract_info_from_card, "Infer email" *)

\* re.match(r'(\w+)', name).group(1), or <<>> when there is no match
RECURSIVE WordPrefix(_)
WordPrefix(s) ==
    IF s # <<>> /\ IsWord(Head(s)) THEN <<Head(s)>> \o WordPrefix(Tail(s)) ELSE <<>>
FirstNameMatch(name) == WordPrefix(name)

\* re.search(r'\s(\w+)$', name).group(1), or <<>> when there is no match
RECURSIVE WordSuffix(_)
WordSuffix(s) ==
    IF s # <<>> /\ IsWord(s[Len(s)])
    THEN WordSuffix(SubSeq(s, 1, Len(s) - 1)) \o <<s[Len(s)]>>
    ELSE <<>>
LastNameMatch(name) ==
    LET w == WordSuffix(name) IN
    IF w # <<>> /\ Len(name) > Len(w) /\ IsSpace(name[Len(name) - Len(w)])
    THEN w ELSE <<>>

Candidates(name, dom) ==
    LET fm == FirstNameMatch(name)
        lm == LastNameMatch(name)
        first_name == Lower(fm)
        last_name == Lower(lm)
        at == <<"@">> \o dom
    IN  IF fm # <<>> /\ lm # <<>>
        THEN << first_name \o <<".">> \o last_name \o at,
                <<first_name[1]>> \o last_name \o at,
                first_name \o last_name \o at,
                first_name \o <<"-">> \o last_name \o at,
                last_name \o <<first_name[1]>> \o at,
                first_name \o at >>
        ELSE IF fm # <<>>
        THEN << first_name \o at >>
        ELSE << >>

\* "take the first candidate that looks like a valid email format"
RECURSIVE FirstValid(_)
FirstValid(cands) ==
    IF cands = <<>> THEN NA
    ELSE IF ShapeMatch(Head(cands)) THEN Head(cands)
    ELSE FirstValid(Tail(cands))

InferEmail(name, dom) ==
    IF name # <<>> /\ dom # <<>> THEN FirstValid(Candidates(name, dom)) ELSE NA

----------------------------------------------------------------------------
(* Inputs of the generator run on its own *)

StringsUpTo(A, n) == UNION {[1..k -> A] : k \in 0..n}

JaneSmith == <<"J","a","n","e"," ","S","m","i","t","h">>
Madonna == <<"M","a","d","o","n","n","a">>
ExampleCom == <<"e","x","a","m","p","l","e",".","c","o","m">>

NameAlphabet == {"J", " ", "-"}
DomainAlphabet == {"x", ".", "@"}
GenNames == StringsUpTo(NameAlphabet, MaxNameLen) \cup {JaneSmith, Madonna}
GenDomains == StringsUpTo(DomainAlphabet, MaxDomainLen) \cup {ExampleCom}

----------------------------------------------------------------------------
(* Field extractor: _extract_info_from_card.  A card is the sequence of its *)
(* descendant tags in document order, each with its one text string.        *)

NameTags == {"h1", "h2", "h3", "h4", "strong", "b"}
TitleTags == {"p", "span", "div", "small"}

\* the "basic filter for names" of the first search
NameFilter(t) ==
    /\ 1 < SplitLen(t) /\ SplitLen(t) < 5
    /\ IsUpper(t[1])
    /\ ~AnyDigit(t)

\* the condition of the broader search over all text nodes
BroadFilter(t) ==
    /\ 1 < SplitLen(t) /\ SplitLen(t) < 5
    /\ IsUpper(t[1])
    /\ ~AnyDigit(t)
    /\ Len(t) > 5
    /\ ~OnlyNonWord(t)

\* card_element.find([...], text=True): the first such tag that has a string
FindFirst(card, tags) ==
    LET hit == {i \in 1..Len(card) : card[i].tag \in tags /\ card[i].text # <<>>}
    IN  IF hit = {} THEN 0 ELSE CHOOSE i \in hit : \A j \in hit : i <= j

ExtractName(card) ==
    LET h == FindFirst(card, NameTags)
        name_text == IF h = 0 THEN <<>> ELSE Strip(card[h].text)
        byTag == IF h # 0 /\ NameFilter(name_text) THEN name_text ELSE <<>>
        ok == {i \in 1..Len(card) : card[i].text # <<>> /\ BroadFilter(Strip(card[i].text))}
    IN  IF byTag # <<>> THEN byTag
        ELSE IF ok = {} THEN <<>>
        ELSE Strip(card[CHOOSE i \in ok : \A j \in ok : i <= j].text)

TitleFilter(t, name) ==
    /\ t # name
    /\ 5 < Len(t) /\ Len(t) < 100
    /\ HasSpace(t)
    /\ ~IsNumeric(t)
    /\ ~OnlyNonWord(t)

ExtractTitle(card, name) ==
    LET ok == {i \in 1..Len(card) :
                  /\ card[i].tag \in TitleTags
                  /\ card[i].text # <<>>
                  /\ TitleFilter(Strip(card[i].text), name)}
    IN  IF ok = {} THEN NA
        ELSE Strip(card[CHOOSE i \in ok : \A j \in ok : i <= j].text)

----------------------------------------------------------------------------
(* Verification adapter: verify_email_with_hunter *)

Missing == "<missing>"
Tokens == {"valid", "deliverable", "acceptable", "invalid", "undeliverable",
           "unknown", "risky"}

\* What hunter_client.email_verifier(email) can do: raise, return something
\* that is no mapping (its .get raises), or return a mapping whose 'result'
\* and 'status' keys may be missing.
ProviderOutcomes ==
    {[kind |-> "raise", reason |-> r, result |-> Missing, status |-> Missing] :
        r \in {"timeout", "transport error"}}
    \cup {[kind |-> "malformed", reason |-> "AttributeError", result |-> Missing,
           status |-> Missing]}
    \cup {[kind |-> "response", reason |-> "", result |-> t, status |-> "success"] :
        t \in Tokens}
    \cup {[kind |-> "response", reason |-> "", result |-> Missing, status |-> Missing]}

\* the provider behaviours the page and batch runs draw from: one of each kind
PipelineOutcomes ==
    {o \in ProviderOutcomes :
        \/ o.kind = "raise" /\ o.reason = "timeout"
        \/ o.kind = "malformed"
        \/ o.kind = "response" /\ o.result \in {"valid", Missing}}

NoCall == [kind |-> "nocall", reason |-> "", result |-> Missing, status |-> Missing]

\* a status_map without its 'acceptable' entry
StatusMapNoAcceptable(result) ==
    CASE result \in {"valid", "deliverable"} -> "VERIFIED"
      [] result \in {"invalid", "undeliverable"} -> "INVALID"
      [] OTHER -> "UNKNOWN"

\* status_map.get(result, 'UNKNOWN')
StatusMap(result) ==
    CASE result \in {"valid", "deliverable", "acceptable"} -> "VERIFIED"
      [] result \in {"invalid", "undeliverable"} -> "INVALID"
      [] result = "unknown" -> "UNKNOWN"
      [] OTHER -> "UNKNOWN"

\* verification_result.get(key, 'N/A')
GetOrNA(v) == IF v = Missing THEN "N/A" ELSE v

\* an adapter that reports a failed provider call as UNKNOWN
VerifyEmailErrUnknown(client, email, out) ==
    IF ~client
    THEN [status |-> "UNVERIFIED", details |-> <<"Hunter.io API key not configured.">>,
          called |-> FALSE]
    ELSE IF ~ShapeMatch(email)
    THEN [status |-> "INVALID",
          details |-> <<"Invalid email format prior to Hunter.io check.">>,
          called |-> FALSE]
    ELSE [status |-> IF out.kind = "response" THEN StatusMap(out.result) ELSE "UNKNOWN",
          details |-> <<"Hunter.io: ", GetOrNA(out.result), " | ", GetOrNA(out.status)>>,
          called |-> TRUE]

\* verify_email_with_hunter(email, domain), given what the provider does when
\* called.  `called` tells whether hunter_client.email_verifier was invoked.
VerifyEmail(client, email, out) ==
    IF ~client
    THEN [status |-> "UNVERIFIED", details |-> <<"Hunter.io API key not configured.">>,
          called |-> FALSE]
    ELSE IF ~ShapeMatch(email)
    THEN [status |-> "INVALID",
          details |-> <<"Invalid email format prior to Hunter.io check.">>,
          called |-> FALSE]
    ELSE IF out.kind = "response"
    THEN [status |-> StatusMap(out.result),
          details |-> <<"Hunter.io: ", GetOrNA(out.result), " | ", GetOrNA(out.status)>>,
          called |-> TRUE]
    ELSE [status |-> "ERROR_VERIFYING",
          details |-> <<"Hunter.io API error: ", out.reason>>,
          called |-> TRUE]

\* _extract_info_from_card(card, domain): <<>> for None, else <<the dict>>
ExtractInfoFromCard(card, dom, client, out) ==
    LET name == ExtractName(card)
        inferred_email == InferEmail(name, dom)
        v == VerifyEmail(client, inferred_email, out)
    IN  IF name = <<>> THEN <<>>
        ELSE << [name |-> name,
                 job_title |-> ExtractTitle(card, name),
                 company |-> dom,
                 inferred_email |-> inferred_email,
                 verified_status |-> v.status,
                 verification_details |-> v.details] >>

----------------------------------------------------------------------------
(* scrape_company_team_page *)

Www == <<"w","w","w",".">>

\* domain = parsed_url.netloc, with a leading "www." removed
StripWww(n) ==
    IF Len(n) >= 4 /\ SubSeq(n, 1, 4) = Www THEN SubSeq(n, 5, Len(n)) ELSE n

\* the loop body's test before employees_data.append(person_data)
Keep(res) == res # <<>> /\ res[1].name # <<>> /\ res[1].inferred_email # NA

\* "Remove potential duplicates based on inferred_email before returning"
RECURSIVE DedupFrom(_, _)
DedupFrom(emps, unique_emails) ==
    IF emps = <<>> THEN <<>>
    ELSE LET emp == Head(emps) IN
         IF emp.inferred_email \notin unique_emails /\ emp.inferred_email # NA
         THEN <<emp>> \o DedupFrom(Tail(emps), unique_emails \cup {emp.inferred_email})
         ELSE DedupFrom(Tail(emps), unique_emails)
Reverse(q) == [i \in 1..Len(q) |-> q[Len(q) + 1 - i]]
\* a deduplicator that drops nothing
DedupKeepAll(emps) == emps
\* a deduplicator that keeps the last record of each email
DedupKeepLast(emps) == Reverse(DedupFrom(Reverse(emps), {}))
Dedup(emps) == DedupFrom(emps, {})

\* the for-loop over potential_person_containers, as a function of the
\* containers and of what the provider does for each
RECURSIVE Collect(_, _, _, _)
Collect(cs, outs, dom, client) ==
    IF cs = <<>> THEN <<>>
    ELSE LET res == ExtractInfoFromCard(Head(cs), dom, client, Head(outs)) IN
         (IF Keep(res) THEN res ELSE <<>>) \o Collect(Tail(cs), Tail(outs), dom, client)

----------------------------------------------------------------------------
(* Inputs: containers and URLs *)

T_JaneASmith == <<" ","J","a","n","e"," ","A"," ","S","m","i","t","h"," ">>
T_OurServices == <<"O","u","r"," ","S","e","r","v","i","c","e","s">>
T_Services == <<"S","e","r","v","i","c","e","s">>
T_ChiefEngineer == <<"C","h","i","e","f"," ","E","n","g","i","n","e","e","r">>
T_BobLee == <<"B","o","b"," ","L","e","e">>
T_SalesLead == <<"S","a","l","e","s"," ","L","e","a","d">>
T_WhatWeDo == <<"W","h","a","t"," ","w","e"," ","d","o">>

CardJane == << [tag |-> "h3", text |-> JaneSmith], [tag |-> "p", text |-> T_ChiefEngineer] >>
CardJaneA == << [tag |-> "strong", text |-> T_JaneASmith] >>
CardBob == << [tag |-> "span", text |-> T_BobLee], [tag |-> "p", text |-> T_SalesLead] >>
CardOurServices == << [tag |-> "h2", text |-> T_OurServices], [tag |-> "p", text |-> T_WhatWeDo] >>
CardServices == << [tag |-> "h2", text |-> T_Services] >>
Cards == {CardJane, CardJaneA, CardBob, CardOurServices, CardServices}

N_None == << >>
N_WwwXCo == <<"w","w","w",".","x",".","c","o">>
N_Localhost == <<"l","o","c","a","l","h","o","s","t">>
N_UserInfo == <<"u",".","x","@","h",".","c","o">>
Netlocs == {N_None, N_WwwXCo, N_Localhost, N_UserInfo}

\* what requests.get / raise_for_status / BeautifulSoup can do
FetchOutcomes == {"ok", "RequestException", "HTTPError", "ParseError"}

NoVerify == [email |-> NA, out |-> NoCall, called |-> FALSE, status |-> "none",
             details |-> << >>]

----------------------------------------------------------------------------
(* SpecGen: the email candidate generator applied to a name and a domain *)

GenIdlePage ==
    /\ pc = "idle" /\ netloc = <<>> /\ domain = <<>> /\ hunter_client = FALSE
    /\ employees_data = <<>> /\ unique_employees = <<>> /\ nseen = 0
    /\ cards = <<>> /\ produced = <<>> /\ lastVerify = NoVerify
    /\ raisedAt = 0 /\ beforeRaise = <<>>

IdleBatch ==
    /\ b_pc = "idle" /\ b_urls = <<>> /\ b_idx = 0 /\ all_stored_leads = <<>>
    /\ b_scraped = <<>> /\ b_k = 0
    /\ db = {} /\ response = [kind |-> "none", leads |-> <<>>] /\ b_log = <<>>

IdleLoc ==
    /\ l_pc = "idle" /\ l_doc = <<>> /\ l_primary = <<>> /\ l_fallback = FALSE
    /\ l_containers = <<>> /\ l_result = <<>> /\ l_error = FALSE

IdleGen == g_pc = "idle" /\ g_name = <<>> /\ g_domain = <<>> /\ g_email = NA

InitGen ==
    /\ g_pc = "start"
    /\ g_name \in GenNames
    /\ g_domain \in GenDomains
    /\ g_email = NA
    /\ GenIdlePage
    /\ IdleLoc
    /\ IdleBatch

Generate ==
    /\ g_pc = "start"
    /\ g_email' = InferEmail(g_name, g_domain)
    /\ g_pc' = "done"
    /\ UNCHANGED <<g_name, g_domain>>
    /\ UNCHANGED pageVars
    /\ UNCHANGED batchVars
    /\ UNCHANGED locVars

NextGen == Generate

SpecGen == InitGen /\ [][NextGen]_vars

----------------------------------------------------------------------------
(* Spec: one run of scrape_company_team_page(url) *)

Init ==
    /\ pc = "start"
    /\ netloc \in Netlocs
    /\ hunter_client \in BOOLEAN
    /\ domain = <<>>
    /\ employees_data = <<>>
    /\ unique_employees = <<>>
    /\ nseen = 0
    /\ cards = <<>>
    /\ produced = <<>>
    /\ lastVerify = NoVerify
    /\ raisedAt = 0
    /\ beforeRaise = <<>>
    /\ IdleGen
    /\ IdleLoc
    /\ IdleBatch

\* urlparse, the "www." strip, and the early return on an empty domain
ParseUrl ==
    /\ pc = "start"
    /\ domain' = StripWww(netloc)
    /\ IF domain' = <<>>
       THEN pc' = "done"
       ELSE pc' = "fetch"
    /\ UNCHANGED <<netloc, hunter_client, employees_data, unique_employees, nseen,
                   cards, produced, lastVerify, raisedAt, beforeRaise>>
    /\ UNCHANGED genVars
    /\ UNCHANGED locVars
    /\ UNCHANGED batchVars

\* urlparse rejects the url (ValueError, "Invalid IPv6 URL"): the call is
\* outside the try, so the exception leaves scrape_company_team_page
UrlParseRaises ==
    /\ pc = "start"
    /\ pc' = "raised"
    /\ UNCHANGED <<netloc, domain, hunter_client, employees_data, unique_employees,
                   nseen, cards, produced, lastVerify, raisedAt, beforeRaise>>
    /\ UNCHANGED genVars
    /\ UNCHANGED locVars
    /\ UNCHANGED batchVars

\* requests.get, raise_for_status, BeautifulSoup(...): either handler returns []
Fetch ==
    /\ pc = "fetch"
    /\ \E r \in FetchOutcomes :
          pc' = IF r = "ok" THEN "loop" ELSE "done"
    /\ UNCHANGED <<netloc, domain, hunter_client, employees_data, unique_employees,
                   nseen, cards, produced, lastVerify, raisedAt, beforeRaise>>
    /\ UNCHANGED genVars
    /\ UNCHANGED locVars
    /\ UNCHANGED batchVars

\* one iteration of the for-loop whose _extract_info_from_card call returns
ProcessContainer ==
    /\ pc = "loop"
    /\ nseen < MaxContainers
    /\ \E card \in Cards, out \in PipelineOutcomes :
          LET res == ExtractInfoFromCard(card, domain, hunter_client, out)
              v == VerifyEmail(hunter_client, InferEmail(ExtractName(card), domain), out)
          IN  /\ cards' = Append(cards, card)
              /\ produced' = Append(produced, res)
              /\ employees_data' = IF Keep(res) THEN Append(employees_data, res[1])
                                   ELSE employees_data
              /\ lastVerify' =
                    IF res = <<>> THEN NoVerify
                    ELSE [email |-> res[1].inferred_email,
                          out |-> IF v.called THEN out ELSE NoCall,
                          called |-> v.called,
                          status |-> v.status,
                          details |-> v.details]
    /\ nseen' = nseen + 1
    /\ UNCHANGED <<pc, netloc, domain, hunter_client, unique_employees, raisedAt,
                   beforeRaise>>
    /\ UNCHANGED genVars
    /\ UNCHANGED locVars
    /\ UNCHANGED batchVars

\* one iteration of the for-loop in which an exception escapes
\* _extract_info_from_card: the loop is inside the try, so the
\* "except Exception" handler returns []
ContainerRaises ==
    /\ pc = "loop"
    /\ nseen < MaxContainers
    /\ \E card \in Cards : cards' = Append(cards, card)
    /\ produced' = Append(produced, <<>>)
    /\ nseen' = nseen + 1
    /\ raisedAt' = nseen + 1
    /\ beforeRaise' = employees_data
    /\ lastVerify' = NoVerify
    /\ unique_employees' = <<>>
    /\ pc' = "done"
    /\ UNCHANGED <<netloc, domain, hunter_client, employees_data>>
    /\ UNCHANGED genVars
    /\ UNCHANGED locVars
    /\ UNCHANGED batchVars

\* the loop is exhausted: deduplicate and return
Return ==
    /\ pc = "loop"
    /\ unique_employees' = Dedup(employees_data)
    /\ pc' = "done"
    /\ UNCHANGED <<netloc, domain, hunter_client, employees_data, nseen, cards,
                   produced, lastVerify, raisedAt, beforeRaise>>
    /\ UNCHANGED genVars
    /\ UNCHANGED locVars
    /\ UNCHANGED batchVars

Next == ParseUrl \/ UrlParseRaises \/ Fetch \/ ProcessContainer \/ ContainerRaises \/ Return

Spec == Init /\ [][Next]_vars

----------------------------------------------------------------------------
(* SpecVerify: verify_email_with_hunter applied to an email *)

EmailAlphabet == {"j", "@", "."}
VerifyEmails == StringsUpTo(EmailAlphabet, MaxEmailLen) \cup {NA}

InitVerify ==
    /\ pc = "verify"
    /\ hunter_client \in BOOLEAN
    /\ lastVerify \in {[NoVerify EXCEPT !.email = e] : e \in VerifyEmails}
    /\ netloc = <<>> /\ domain = <<>>
    /\ employees_data = <<>> /\ unique_employees = <<>> /\ nseen = 0
    /\ cards = <<>> /\ produced = <<>>
    /\ raisedAt = 0 /\ beforeRaise = <<>>
    /\ IdleGen
    /\ IdleLoc
    /\ IdleBatch

VerifyCall ==
    /\ pc = "verify"
    /\ \E out \in ProviderOutcomes :
          LET v == VerifyEmail(hunter_client, lastVerify.email, out) IN
          lastVerify' = [email |-> lastVerify.email,
                         out |-> IF v.called THEN out ELSE NoCall,
                         called |-> v.called,
                         status |-> v.status,
                         details |-> v.details]
    /\ pc' = "verified"
    /\ UNCHANGED <<netloc, domain, hunter_client, employees_data, unique_employees,
                   nseen, cards, produced, raisedAt, beforeRaise>>
    /\ UNCHANGED genVars
    /\ UNCHANGED locVars
    /\ UNCHANGED batchVars

NextVerify == VerifyCall

SpecVerify == InitVerify /\ [][NextVerify]_vars

----------------------------------------------------------------------------
(* SpecBatch: batch_scrape_and_store_leads over request.urls *)

N_YCo == <<"y",".","c","o">>

OutValid == [kind |-> "response", reason |-> "", result |-> "valid", status |-> "success"]
OutTimeout == [kind |-> "raise", reason |-> "timeout", result |-> Missing, status |-> Missing]

\* A URL of the request with what the network, the page and the provider do
\* for it.  urlerr: urlparse raises ValueError; raises: an exception escapes
\* the processing of one of the page's containers.
PageOf(n, f, cs, os) ==
    [urlerr |-> FALSE, netloc |-> n, fetch |-> f, cards |-> cs, outs |-> os,
     raises |-> FALSE]
BatchPages ==
    { PageOf(N_WwwXCo, "ok", <<CardJane, CardOurServices>>, <<OutValid, OutTimeout>>),
      PageOf(N_YCo, "ok", <<CardBob>>, <<OutValid>>),
      PageOf(N_WwwXCo, "ok", <<CardServices>>, <<OutValid>>),
      PageOf(N_WwwXCo, "RequestException", <<>>, <<>>),
      PageOf(N_WwwXCo, "HTTPError", <<>>, <<>>),
      PageOf(N_WwwXCo, "ParseError", <<>>, <<>>),
      PageOf(N_None, "ok", <<>>, <<>>),
      [PageOf(N_WwwXCo, "ok", <<CardJane, CardBob>>, <<OutValid, OutValid>>)
          EXCEPT !.raises = TRUE],
      [PageOf(N_None, "ok", <<>>, <<>>) EXCEPT !.urlerr = TRUE] }

\* scrape_company_team_page(url) as the batch calls it: the returned list
ScrapePage(page, client) ==
    LET dom == StripWww(page.netloc) IN
    IF dom = <<>> THEN <<>>
    ELSE IF page.fetch # "ok" THEN <<>>
    ELSE IF page.raises THEN <<>>
    ELSE Dedup(Collect(page.cards, page.outs, dom, client))

\* "continue" after an empty scrape: the loop goes on with the next URL
NextUrlAfterEmptyBreak(i, n) == n
NextUrlAfterEmpty(i, n) == i + 1

\* a row already in the leads table when the request arrives
OldRow ==
    [id |-> 1,
     lead |-> [name |-> JaneSmith, job_title |-> NA, company |-> SubSeq(N_WwwXCo, 5, 8),
               inferred_email |-> InferEmail(JaneSmith, SubSeq(N_WwwXCo, 5, 8)),
               verified_status |-> "UNVERIFIED",
               verification_details |-> <<"Hunter.io API key not configured.">>]]

InitBatch ==
    /\ b_pc = "loop"
    /\ b_urls \in UNION {[1..k -> BatchPages] : k \in 1..MaxUrls}
    /\ hunter_client \in BOOLEAN
    /\ db \in {{}, {OldRow}}
    /\ b_idx = 0
    /\ b_scraped = <<>>
    /\ b_k = 0
    /\ all_stored_leads = <<>>
    /\ response = [kind |-> "none", leads |-> <<>>]
    /\ b_log = <<>>
    /\ pc = "idle" /\ netloc = <<>> /\ domain = <<>>
    /\ employees_data = <<>> /\ unique_employees = <<>> /\ nseen = 0
    /\ cards = <<>> /\ produced = <<>> /\ lastVerify = NoVerify
    /\ raisedAt = 0 /\ beforeRaise = <<>>
    /\ IdleGen
    /\ IdleLoc

\* one iteration of "for url in request.urls" up to the inner loop
BatchScrape ==
    /\ b_pc = "loop"
    /\ b_idx < Len(b_urls)
    /\ LET page == b_urls[b_idx + 1]
           scraped_data == IF page.urlerr THEN <<>> ELSE ScrapePage(page, hunter_client)
       IN  /\ b_log' = Append(b_log, [url |-> b_idx + 1, result |-> scraped_data,
                                      dbfailed |-> {}])
           /\ IF page.urlerr
              THEN \* the exception reaches the outer handler, which logs it
                   /\ b_idx' = b_idx + 1
                   /\ UNCHANGED <<b_pc, b_scraped, b_k>>
              ELSE IF scraped_data = <<>>
              THEN /\ b_idx' = NextUrlAfterEmpty(b_idx, Len(b_urls))
                   /\ UNCHANGED <<b_pc, b_scraped, b_k>>
              ELSE /\ b_pc' = "store"
                   /\ b_scraped' = scraped_data
                   /\ b_k' = 0
                   /\ UNCHANGED b_idx
    /\ UNCHANGED <<b_urls, all_stored_leads, db, response>>
    /\ UNCHANGED pageVars
    /\ UNCHANGED genVars
    /\ UNCHANGED locVars

\* one iteration of "for lead_dict in scraped_data"
StoreLead ==
    /\ b_pc = "store"
    /\ b_k < Len(b_scraped)
    /\ LET lead == b_scraped[b_k + 1]
           existing == {row \in db : row.lead.inferred_email = lead.inferred_email}
           db_lead == [id |-> Cardinality(db) + 1, lead |-> lead]
       IN  \E dbexc \in BOOLEAN :
              IF dbexc
              THEN \* except Exception: db.rollback()
                   /\ b_log' = [b_log EXCEPT ![Len(b_log)].dbfailed =
                                                 @ \cup {lead.inferred_email}]
                   /\ UNCHANGED <<db, all_stored_leads>>
              ELSE IF existing # {}
              THEN /\ all_stored_leads' =
                          Append(all_stored_leads, CHOOSE row \in existing : TRUE)
                   /\ UNCHANGED <<db, b_log>>
              ELSE /\ db' = db \cup {db_lead}
                   /\ all_stored_leads' = Append(all_stored_leads, db_lead)
                   /\ UNCHANGED b_log
    /\ b_k' = b_k + 1
    /\ IF b_k + 1 = Len(b_scraped)
       THEN b_pc' = "loop" /\ b_idx' = b_idx + 1
       ELSE UNCHANGED <<b_pc, b_idx>>
    /\ UNCHANGED <<b_urls, b_scraped, response>>
    /\ UNCHANGED pageVars
    /\ UNCHANGED genVars
    /\ UNCHANGED locVars

\* after the loop: 204 when nothing was stored, else the stored leads
Respond ==
    /\ b_pc = "loop"
    /\ b_idx >= Len(b_urls)
    /\ response' = IF all_stored_leads = <<>>
                   THEN [kind |-> "HTTPException204", leads |-> <<>>]
                   ELSE [kind |-> "ok", leads |-> all_stored_leads]
    /\ b_pc' = "done"
    /\ UNCHANGED <<b_urls, b_idx, b_scraped, b_k, all_stored_leads, db, b_log>>
    /\ UNCHANGED pageVars
    /\ UNCHANGED genVars
    /\ UNCHANGED locVars

NextBatch == BatchScrape \/ StoreLead \/ Respond

SpecBatch == InitBatch /\ [][NextBatch]_vars

----------------------------------------------------------------------------
(* SpecLocate: the container locator of scrape_company_team_page and the   *)
(* loop over what it found.  An element of the document is its tag, its    *)
(* class attribute (<<>> when it has none) and its descendant tags.        *)

\* re.compile(...).search(cls): the class attribute contains kw
Contains(s, kw) ==
    \E i \in 0..(Len(s) - Len(kw)) : SubSeq(s, i + 1, i + Len(kw)) = kw

\* (team|member|person|staff|employee|author|card|profile|bio)
PrimaryKeywords == {
    <<"t","e","a","m">>,
    <<"m","e","m","b","e","r">>,
    <<"p","e","r","s","o","n">>,
    <<"s","t","a","f","f">>,
    <<"e","m","p","l","o","y","e","e">>,
    <<"a","u","t","h","o","r">>,
    <<"c","a","r","d">>,
    <<"p","r","o","f","i","l","e">>,
    <<"b","i","o">> }
\* (section|container|wrap)
FallbackKeywords == {
    <<"s","e","c","t","i","o","n">>,
    <<"c","o","n","t","a","i","n","e","r">>,
    <<"w","r","a","p">> }

ClassMatches(cls, kws) == \E kw \in kws : Contains(cls, kw)

\* soup.find_all(['div', 'li'], class_=<primary keywords>)
IsPrimary(el) == el.tag \in {"div", "li"} /\ ClassMatches(el.class, PrimaryKeywords)
PrimaryPass(doc) == SelectSeq(doc, IsPrimary)

\* container.find([...]): a descendant with one of the tags exists
HasTag(el, tags) == \E i \in 1..Len(el.children) : el.children[i].tag \in tags

\* soup.find_all('div', class_=<fallback keywords>)
IsStructural(el) == el.tag = "div" /\ ClassMatches(el.class, FallbackKeywords)

\* a fallback pass that keeps every structural element
FallbackPassNoFilter(doc) == SelectSeq(doc, IsStructural)

\* the fallback: structural divs that hold an h2/h3/h4 and a p/span
IsFallback(el) ==
    /\ IsStructural(el)
    /\ HasTag(el, {"h2", "h3", "h4"})
    /\ HasTag(el, {"p", "span"})
FallbackPass(doc) == SelectSeq(doc, IsFallback)

\* "if not potential_person_containers"
NeedFallback(primary) == primary = <<>>

CardOf(el) == el.children

\* the children of the located containers, for _extract_info_from_card
RECURSIVE CardsOf(_)
CardsOf(cs) == IF cs = <<>> THEN <<>> ELSE <<CardOf(Head(cs))>> \o CardsOf(Tail(cs))

C_TeamMember == <<"t","e","a","m","-","m","e","m","b","e","r">>
C_Staff == <<"s","t","a","f","f">>
C_ContentWrap == <<"c","o","n","t","e","n","t","-","w","r","a","p">>
C_Wrap == <<"w","r","a","p">>
C_Container == <<"c","o","n","t","a","i","n","e","r">>
C_Section == <<"s","e","c","t","i","o","n">>
C_Hero == <<"h","e","r","o">>

CardH1Jane == << [tag |-> "h1", text |-> JaneSmith], [tag |-> "p", text |-> T_ChiefEngineer] >>

Element(tg, cls, ch) == [tag |-> tg, class |-> cls, children |-> ch]
DocElements ==
    { Element("div", C_TeamMember, CardJane),
      Element("li", C_Staff, CardBob),
      Element("div", C_ContentWrap, CardJane),
      Element("div", C_Wrap, CardJaneA),
      Element("div", C_Container, CardH1Jane),
      Element("div", C_Section, CardServices),
      Element("li", C_Wrap, CardBob),
      Element("div", C_Hero, CardJane),
      Element("div", <<>>, CardBob) }

InitLocate ==
    /\ l_pc = "parsed"
    /\ l_doc \in UNION {[1..k -> DocElements] : k \in 0..MaxDocLen}
    /\ l_primary = <<>>
    /\ l_fallback = FALSE
    /\ l_containers = <<>>
    /\ l_result = <<>>
    /\ l_error = FALSE
    /\ hunter_client \in BOOLEAN
    /\ netloc = N_WwwXCo
    /\ domain = StripWww(N_WwwXCo)
    /\ pc = "idle"
    /\ employees_data = <<>> /\ unique_employees = <<>> /\ nseen = 0
    /\ cards = <<>> /\ produced = <<>> /\ lastVerify = NoVerify
    /\ raisedAt = 0 /\ beforeRaise = <<>>
    /\ IdleGen
    /\ IdleBatch

\* the primary find_all and, when it found nothing, the fallback
LocateContainers ==
    /\ l_pc = "parsed"
    /\ l_primary' = PrimaryPass(l_doc)
    /\ l_fallback' = NeedFallback(l_primary')
    /\ l_containers' = IF l_fallback' THEN FallbackPass(l_doc) ELSE l_primary'
    /\ l_pc' = "located"
    /\ UNCHANGED <<l_doc, l_result, l_error>>
    /\ UNCHANGED pageVars
    /\ UNCHANGED genVars
    /\ UNCHANGED batchVars

\* the for-loop over the located containers, the deduplication and the return
ExtractLocated ==
    /\ l_pc = "located"
    /\ \E outs \in [1..Len(l_containers) -> PipelineOutcomes] :
          l_result' = Dedup(Collect(CardsOf(l_containers), outs, domain, hunter_client))
    /\ l_pc' = "done"
    /\ UNCHANGED <<l_doc, l_primary, l_fallback, l_containers, l_error>>
    /\ UNCHANGED pageVars
    /\ UNCHANGED genVars
    /\ UNCHANGED batchVars

\* an exception escapes the processing of one of the located containers and
\* the "except Exception" handler logs it and returns []
LocatedContainerRaises ==
    /\ l_pc = "located"
    /\ l_containers # <<>>
    /\ l_result' = <<>>
    /\ l_error' = TRUE
    /\ l_pc' = "done"
    /\ UNCHANGED <<l_doc, l_primary, l_fallback, l_containers>>
    /\ UNCHANGED pageVars
    /\ UNCHANGED genVars
    /\ UNCHANGED batchVars

NextLocate == LocateContainers \/ ExtractLocated \/ LocatedContainerRaises

SpecLocate == InitLocate /\ [][NextLocate]_vars

----------------------------------------------------------------------------
(* Properties *)

\* The whole-string shape ^[^@]+@[^@]+\.[^@]+$ : exactly one "@", not first,
\* and after it a "." with at least one character on each side.
FullShape(s) ==
    \E a \in 2..Len(s) :
        /\ s[a] = "@"
        /\ \A i \in 1..Len(s) : s[i] = "@" => i = a
        /\ \E k \in (a + 2)..(Len(s) - 1) : s[k] = "."

\* A domain that starts with characters other than "@", then a ".", then a
\* character other than "@".
DomainShape(d) ==
    \E k \in 2..(Len(d) - 1) :
        /\ d[k] = "."
        /\ \A i \in 1..(k - 1) : d[i] # "@"
        /\ d[k + 1] # "@"

Emails(recs) == {recs[i].inferred_email : i \in 1..Len(recs)}

\* C1: the list scrape_company_team_page returns holds no two records with
\* equal inferred_email and no record whose inferred_email is the sentinel.
C1_UniqueNoSentinel ==
    /\ \A i, j \in 1..Len(unique_employees) :
          i # j => unique_employees[i].inferred_email # unique_employees[j].inferred_email
    /\ \A i \in 1..Len(unique_employees) : unique_employees[i].inferred_email # NA

\* two containers gave the same email and the run returned one record for it
C1_Witness ==
    /\ pc = "done"
    /\ Len(employees_data) = 2
    /\ employees_data[1].inferred_email = employees_data[2].inferred_email
    /\ Len(unique_employees) = 1

\* the containers that are the first to produce their (non-sentinel) email
FirstProducers ==
    {i \in 1..Len(produced) :
        /\ produced[i] # <<>>
        /\ produced[i][1].inferred_email # NA
        /\ \A j \in 1..(i - 1) :
              produced[j] = <<>> \/ produced[j][1].inferred_email # produced[i][1].inferred_email}

\* C2: a run that reaches the deduplicator returns, for each distinct
\* non-sentinel email, exactly the record of the first container that produced
\* it, in the order of those containers.
C2_FirstSeenOrder ==
    (pc = "done" /\ raisedAt = 0) =>
        /\ Len(unique_employees) = Cardinality(FirstProducers)
        /\ \A k \in 1..Len(unique_employees) :
              \E i \in FirstProducers :
                  /\ produced[i][1] = unique_employees[k]
                  /\ Cardinality({j \in FirstProducers : j < i}) = k - 1

\* the second container repeated the first one's email with another record
C2_Witness ==
    /\ pc = "done" /\ raisedAt = 0
    /\ Len(produced) = 2
    /\ produced[1] # <<>> /\ produced[2] # <<>>
    /\ produced[1][1].inferred_email = produced[2][1].inferred_email
    /\ produced[1][1] # produced[2][1]
    /\ unique_employees = produced[1]

\* C4: when the processing of a container raises, the records extracted from
\* the earlier containers of the page are still in the page's result.
C4_BadContainerKeepsOthers ==
    (pc = "done" /\ raisedAt # 0) =>
        \A i \in 1..Len(beforeRaise) :
            beforeRaise[i].inferred_email \in Emails(unique_employees)

\* C5: a provider call that raises, times out or returns a malformed response
\* gives status ERROR_VERIFYING with the failure reason, no exception escapes,
\* the container's record is emitted with that status and the run goes on.
C5_ProviderFailureDegrades ==
    (lastVerify.called /\ lastVerify.out.kind \in {"raise", "malformed"}) =>
        /\ lastVerify.status = "ERROR_VERIFYING"
        /\ lastVerify.details = <<"Hunter.io API error: ", lastVerify.out.reason>>
        /\ raisedAt = 0
        /\ produced[nseen] # <<>>
        /\ produced[nseen][1].verified_status = "ERROR_VERIFYING"
        /\ produced[nseen][1].verification_details = lastVerify.details
        /\ employees_data # <<>>
        /\ employees_data[Len(employees_data)] = produced[nseen][1]
        /\ \/ pc = "loop"
           \/ pc = "done" /\ produced[nseen][1].inferred_email \in Emails(unique_employees)

\* the provider call failed for two containers and both records were returned
C5_Witness ==
    /\ pc = "done"
    /\ nseen = 2
    /\ produced[1] # <<>> /\ produced[1][1].verified_status = "ERROR_VERIFYING"
    /\ lastVerify.called /\ lastVerify.out.kind = "malformed"
    /\ Len(unique_employees) = 2

\* C6: the provider is called only with a client configured and an email of
\* the basic shape; without a client the outcome is UNVERIFIED and no call is
\* made; with a client and an email that is the sentinel or not of the shape
\* the outcome is INVALID and no call is made.
C6_CallOnlyWellShaped ==
    lastVerify.status # "none" =>
        /\ lastVerify.called => (hunter_client /\ FullShape(lastVerify.email))
        /\ ~hunter_client => (lastVerify.status = "UNVERIFIED" /\ ~lastVerify.called)
        /\ (hunter_client /\ (lastVerify.email = NA \/ ~FullShape(lastVerify.email))) =>
              (lastVerify.status = "INVALID" /\ ~lastVerify.called)

VerifiedStatus == {"UNVERIFIED", "VERIFIED", "INVALID", "UNKNOWN", "ERROR_VERIFYING"}

\* C7: after a provider call that returned a response, the status is VERIFIED
\* for the tokens valid, deliverable, acceptable, INVALID for invalid,
\* undeliverable, and UNKNOWN for any other or a missing token; every status
\* the adapter gives is one of the five of the enum.
C7_TokenMapping ==
    /\ (lastVerify.called /\ lastVerify.out.kind = "response") =>
          lastVerify.status =
              IF lastVerify.out.result \in {"valid", "deliverable", "acceptable"}
              THEN "VERIFIED"
              ELSE IF lastVerify.out.result \in {"invalid", "undeliverable"}
              THEN "INVALID"
              ELSE "UNKNOWN"
    /\ pc = "verified" => lastVerify.status \in VerifiedStatus

\* the provider answered "acceptable"
C7_Witness ==
    /\ pc = "verified"
    /\ lastVerify.called
    /\ lastVerify.out.result = "acceptable"
    /\ lastVerify.status = "VERIFIED"

\* C8: every inferred_email the generator gives is the sentinel or matches the
\* whole-string shape.
C8_GeneratedShape ==
    g_pc = "done" => (g_email = NA \/ FullShape(g_email))

\* the first token of a name: its longest prefix of word characters
FirstToken(name) ==
    LET n == CHOOSE k \in 0..Len(name) :
                 /\ \A i \in 1..k : IsWord(name[i])
                 /\ (k < Len(name) => ~IsWord(name[k + 1]))
    IN  SubSeq(name, 1, n)

\* the last token of a name: its longest suffix of word characters, when that
\* suffix is not empty and a whitespace character precedes it
LastToken(name) ==
    LET m == CHOOSE k \in 1..(Len(name) + 1) :
                 /\ \A i \in k..Len(name) : IsWord(name[i])
                 /\ (k > 1 => ~IsWord(name[k - 1]))
    IN  IF m <= Len(name) /\ m > 1 /\ IsSpace(name[m - 1])
        THEN SubSeq(name, m, Len(name)) ELSE <<>>

Lowercased(s) ==
    [i \in 1..Len(s) |->
        IF \E k \in 1..26 : UpperSeq[k] = s[i]
        THEN LowerSeq[CHOOSE k \in 1..26 : UpperSeq[k] = s[i]]
        ELSE s[i]]

ExpectedCandidate(name, dom) ==
    IF LastToken(name) # <<>>
    THEN Lowercased(FirstToken(name)) \o <<".">> \o Lowercased(LastToken(name))
            \o <<"@">> \o dom
    ELSE Lowercased(FirstToken(name)) \o <<"@">> \o dom

HeadingIs(card, t) == card # <<>> /\ card[1].tag \in NameTags /\ card[1].text = t

\* C10 as stated: a container whose heading text is "Our Services" gives no
\* record.
C10_OurServicesDiscarded ==
    \A i \in 1..Len(produced) :
        (HeadingIs(cards[i], T_OurServices) /\ raisedAt # i) => produced[i] = <<>>

\* C10 amended: a container whose heading text is "Our Services" (two tokens,
\* upper-case first, no digit) gives a record named "Our Services", which is
\* emitted whenever its inferred email is not the sentinel; a container whose
\* only text is the one-token heading "Services" gives no record.
C10_OurServicesAccepted ==
    \A i \in 1..Len(produced) :
        raisedAt # i =>
            /\ HeadingIs(cards[i], T_OurServices) =>
                  /\ produced[i] # <<>>
                  /\ produced[i][1].name = T_OurServices
                  /\ produced[i][1].inferred_email # NA =>
                        \E k \in 1..Len(employees_data) : employees_data[k] = produced[i][1]
            /\ cards[i] = CardServices => produced[i] = <<>>

\* an "Our Services" container was processed and its record is in the result
C10_Witness ==
    /\ pc = "done"
    /\ cards # <<>> /\ HeadingIs(cards[1], T_OurServices)
    /\ \E k \in 1..Len(unique_employees) : unique_employees[k].name = T_OurServices

\* a URL whose page cannot be fetched or parsed, or that has no domain
PageFails(page) ==
    page.urlerr \/ page.netloc = <<>> \/ page.netloc = Www \/ page.fetch # "ok"

\* the non-sentinel emails the containers of a page give
PageEmails(page, client) ==
    LET dom == IF Len(page.netloc) > 4 /\ SubSeq(page.netloc, 1, 4) = Www
               THEN SubSeq(page.netloc, 5, Len(page.netloc)) ELSE page.netloc
    IN  {InferEmail(ExtractName(page.cards[i]), dom) : i \in 1..Len(page.cards)} \ {NA}

\* C3: in a batch, a page that fails to fetch or parse, or whose URL has no
\* domain, gives an empty result and does not stop the batch: every URL is
\* processed, in order, and every lead of every other page that the table
\* accepted is in the response.
C3_PageFailureIsLocal ==
    b_pc = "done" =>
        /\ Len(b_log) = Len(b_urls)
        /\ \A i \in 1..Len(b_log) :
              /\ b_log[i].url = i
              /\ PageFails(b_urls[i]) => b_log[i].result = <<>>
              /\ (~PageFails(b_urls[i]) /\ ~b_urls[i].raises) =>
                    Emails(b_log[i].result) = PageEmails(b_urls[i], hunter_client)
              /\ \A e \in Emails(b_log[i].result) \ b_log[i].dbfailed :
                    /\ response.kind = "ok"
                    /\ \E k \in 1..Len(response.leads) :
                          response.leads[k].lead.inferred_email = e

\* the first page failed to fetch and the lead of the second is in the response
C3_Witness ==
    /\ b_pc = "done"
    /\ Len(b_urls) = 2
    /\ b_urls[1].fetch \in {"RequestException", "HTTPError", "ParseError"}
    /\ b_log[1].result = <<>>
    /\ b_log[2].result # <<>>
    /\ response.kind = "ok"
    /\ \E k \in 1..Len(response.leads) :
          response.leads[k].lead.inferred_email \in Emails(b_log[2].result)

HeadingTags == {"h1", "h2", "h3", "h4", "h5", "h6"}
ParaSpanTags == {"p", "span"}
ElementsOf(q) == {q[i] : i \in 1..Len(q)}

\* C11: the fallback pass runs exactly when the primary keyword pass yields no
\* container; what the fallback retains holds at least one heading-level
\* element and at least one paragraph/span-level element; and a page for which
\* neither pass yields a container returns zero leads with no error.
C11_Locator ==
    l_pc \in {"located", "done"} =>
        /\ l_fallback <=> (l_primary = <<>>)
        /\ ~l_fallback => l_containers = l_primary
        /\ l_fallback =>
              \A el \in ElementsOf(l_containers) :
                  /\ el \in ElementsOf(l_doc)
                  /\ \E i \in 1..Len(el.children) : el.children[i].tag \in HeadingTags
                  /\ \E i \in 1..Len(el.children) : el.children[i].tag \in ParaSpanTags
        /\ (l_pc = "done" /\ l_containers = <<>>) => (l_result = <<>> /\ ~l_error)

\* the fallback ran on a document with two structural divs, kept the one with
\* a heading and a paragraph and dropped the other
C11_Witness ==
    /\ l_pc = "done"
    /\ l_fallback
    /\ Len(l_doc) = 2
    /\ \A i \in 1..2 : l_doc[i].tag = "div" /\ ClassMatches(l_doc[i].class, FallbackKeywords)
    /\ Len(l_containers) = 1
    /\ l_result # <<>>

====
